---- MODULE Spec2Model ----
(***************************************************************************)
(* Model of core/src/class/trace.rs: the Trace capability, the Tracer      *)
(* (scoped visitor) with its two reporting operations, and the blanket     *)
(* Trace implementations generated by trace_impls!.                        *)
(*                                                                         *)
(* The observable effect of a trace call is the sequence of calls it makes *)
(* into the collector: direct invocations of the bound mark callback       *)
(* (op = "mark_func") and calls of JS_MarkValue (op = "JS_MarkValue").     *)
(* A panic (Option::unwrap on an absent callback) ends the call.           *)
(***************************************************************************)
EXTENDS Integers, Sequences, FiniteSets, TLC

VARIABLES tracer, obj, op, out, aborted, seen

vars == <<tracer, obj, op, out, aborted, seen>>

---------------------------------------------------------------------------
(* Bounds of the model *)

NumRt == 2
NumFunc == 1
NumCtx == 2
NumPtr == 2
MaxLen == 3
MaxEntries == 2
NestLen == 2

(* Largest tuple arity with a Trace implementation (A .. P). *)
MaxArity == 16

---------------------------------------------------------------------------
(* Values of the program *)

(* qjs::JS_MarkFunc is an Option of a function pointer; None is the absent callback. *)
None == 0

Runtimes == 1..NumRt
MarkFuncs == {None} \cup (1..NumFunc)
CtxPtrs == 1..NumCtx
ValPtrs == 1..NumPtr

(* Every traceable object is a record of one shape: kind selects the Trace  *)
(* implementation, type is the Rust type, ctx/ptr/rc are the context, the   *)
(* native pointer and the reference-counted flag of a managed value, items  *)
(* are the components of a composite in declaration or iteration order.     *)
Term(kind, type, ctx, ptr, rc, items) ==
    [kind |-> kind, type |-> type, ctx |-> ctx, ptr |-> ptr, rc |-> rc, items |-> items]

NoObj == Term("none", "none", 0, 0, FALSE, <<>>)

PrimTypes == {"u8", "u16", "u32", "u64", "usize",
              "i8", "i16", "i32", "i64", "isize",
              "f32", "f64", "bool", "char",
              "String", "crate::Atom", "crate::Module"}

BaseTypes == {"crate::Object", "crate::Array", "crate::Function", "crate::BigInt",
              "crate::Symbol", "crate::Exception", "crate::String"}

RefTypes == {"Box", "std::rc::Rc", "std::sync::Arc"}

SeqListTypes == {"Vec", "std::collections::VecDeque", "std::collections::LinkedList"}

SetListTypes == {"std::collections::HashSet", "std::collections::BTreeSet", "indexmap::IndexSet"}

ListTypes == SeqListTypes \cup SetListTypes

MapTypes == {"std::collections::HashMap", "std::collections::BTreeMap", "indexmap::IndexMap"}

PrimT(ty) == Term("primitive", ty, 0, 0, FALSE, <<>>)
CtxT(c) == Term("ctx", "Ctx", c, c, TRUE, <<>>)
ValueT(c, p, rc) == Term("value", "Value", c, p, rc, <<>>)
(* The typed managed kinds are heap objects of the engine: always ref-counted. *)
BaseT(ty, c, p) == Term("base", ty, c, p, TRUE, <<>>)
RefT(ty, inner) == Term("ref", ty, 0, 0, FALSE, <<inner>>)
TupT(items) == Term("tup", "tuple", 0, 0, FALSE, items)
ListT(ty, items) == Term("list", ty, 0, 0, FALSE, items)
EntryT(k, v) == Term("entry", "(K, V)", 0, 0, FALSE, <<k, v>>)
MapT(ty, entries) == Term("map", ty, 0, 0, FALSE, entries)

---------------------------------------------------------------------------
(* The calls into the collector and the outcome of a call tree *)

(* (self.mark_func.unwrap())(self.rt, ptr.cast()) *)
CallMarkFunc(t, ptr) == [op |-> "mark_func", rt |-> t.rt, func |-> t.mark_func, ptr |-> ptr]

(* qjs::JS_MarkValue(self.rt, value, self.mark_func) *)
JS_MarkValue(t, value) == [op |-> "JS_MarkValue", rt |-> t.rt, func |-> t.mark_func, ptr |-> value.ptr]

Done(calls) == [out |-> calls, panic |-> FALSE]
Panic == [out |-> <<>>, panic |-> TRUE]

(* r1; r2 : the second statement runs only when the first did not panic. *)
Then(r1, r2) ==
    IF r1.panic THEN r1 ELSE [out |-> r1.out \o r2.out, panic |-> r2.panic]

---------------------------------------------------------------------------
(* Tracer *)

from_ffi(rt, mark_func) == [rt |-> rt, mark_func |-> mark_func]

Tracers == {from_ffi(rt, f) : rt \in Runtimes, f \in MarkFuncs}

(* value.ctx() : the context a value belongs to *)
ctx(value) == CtxT(value.ctx)

(* ctx.as_ptr() *)
as_ptr(c) == c.ptr

(* value.as_js_value() : the raw engine value, same pointer and tag *)
as_js_value(value) == value

(* qjs::JS_VALUE_HAS_REF_COUNT *)
JS_VALUE_HAS_REF_COUNT(value) == value.rc

(* self.as_value() of a typed managed kind : the same value seen as a Value *)
as_value(b) == ValueT(b.ctx, b.ptr, b.rc)

mark_ctx_dedup(t, c) ==
    IF t.mark_func = None THEN Panic
    ELSE IF as_ptr(c) \in seen THEN Done(<<>>)
    ELSE Done(<<CallMarkFunc(t, as_ptr(c))>>)

mark_ctx(t, c) ==
    IF t.mark_func = None THEN Panic
    ELSE Done(<<CallMarkFunc(t, as_ptr(c))>>)

mark_unchecked(t, value) ==
    Then(mark_ctx(t, ctx(value)), Done(<<JS_MarkValue(t, as_js_value(value))>>))

mark_value_only(t, value) ==
    IF JS_VALUE_HAS_REF_COUNT(as_js_value(value))
    THEN Done(<<JS_MarkValue(t, as_js_value(value))>>)
    ELSE Done(<<>>)

mark(t, value) ==
    Then(mark_ctx(t, ctx(value)),
         IF JS_VALUE_HAS_REF_COUNT(as_js_value(value))
         THEN Done(<<JS_MarkValue(t, as_js_value(value))>>)
         ELSE Done(<<>>))

---------------------------------------------------------------------------
(* Trace implementations *)

RECURSIVE trace(_, _)
RECURSIVE trace_items(_, _)
RECURSIVE trace_items_rev(_, _)

(* for item in items { item.trace(tracer) } ; also the unrolled tuple body *)
trace_items(t, items) ==
    IF items = <<>> THEN Done(<<>>)
    ELSE Then(trace(t, Head(items)), trace_items(t, Tail(items)))

trace_items_rev(t, items) ==
    IF items = <<>> THEN Done(<<>>)
    ELSE Then(trace_items_rev(t, Tail(items)), trace(t, Head(items)))

trace_Value(t, self) == mark(t, self)

trace_Ctx(t, self) == mark_ctx(t, self)

trace_primitive_marking(t, self) == mark_ctx(t, CtxT(1))

trace_primitive(t, self) == Done(<<>>)

trace_base_noop(t, self) == Done(<<>>)

trace_base(t, self) == trace(t, as_value(self))

trace_ref_twice(t, self) ==
    Then(trace(t, self.items[1]), trace(t, self.items[1]))

trace_ref(t, self) == trace(t, self.items[1])

trace_tup_first(t, self) ==
    IF self.items = <<>> THEN Done(<<>>) ELSE trace(t, Head(self.items))

trace_tup_rev(t, self) == trace_items_rev(t, self.items)

trace_tup(t, self) == trace_items(t, self.items)

trace_list_skip_last(t, self) ==
    IF self.items = <<>> THEN Done(<<>>)
    ELSE trace_items(t, SubSeq(self.items, 1, Len(self.items) - 1))

trace_list(t, self) == trace_items(t, self.items)

(* one (key, item) pair of the map's iterator: key.trace; item.trace *)
trace_entry(t, self) ==
    Then(trace(t, self.items[1]), trace(t, self.items[2]))

trace_map_keys_first(t, self) ==
    Then(trace_items(t, [i \in 1..Len(self.items) |-> self.items[i].items[1]]),
         trace_items(t, [i \in 1..Len(self.items) |-> self.items[i].items[2]]))

trace_map(t, self) == trace_items(t, self.items)

(* Static dispatch on the type of self. *)
trace(t, self) ==
    CASE self.kind = "value" -> trace_Value(t, self)
      [] self.kind = "ctx" -> trace_Ctx(t, self)
      [] self.kind = "primitive" -> trace_primitive(t, self)
      [] self.kind = "base" -> trace_base(t, self)
      [] self.kind = "ref" -> trace_ref(t, self)
      [] self.kind = "tup" -> trace_tup(t, self)
      [] self.kind = "list" -> trace_list(t, self)
      [] self.kind = "entry" -> trace_entry(t, self)
      [] self.kind = "map" -> trace_map(t, self)

---------------------------------------------------------------------------
(* The objects a mark pass may visit *)

Seqs(S, n) == UNION {[1..k -> S] : k \in 0..n}

Injective(s) == \A i, j \in 1..Len(s) : i # j => s[i] # s[j]

Prims == {PrimT(ty) : ty \in PrimTypes}
Ctxs == {CtxT(c) : c \in CtxPtrs}
Values == {ValueT(c, p, rc) : c \in CtxPtrs, p \in ValPtrs, rc \in BOOLEAN}
Bases == {BaseT(ty, c, p) : ty \in BaseTypes, c \in CtxPtrs, p \in ValPtrs}

(* Elements held by the containers, tuples and smart pointers of the model. *)
Managed == {BaseT("crate::Object", 1, 1), BaseT("crate::Function", 2, 1),
            ValueT(2, 2, TRUE), ValueT(1, 1, FALSE)}

Elems == Managed \cup {PrimT("i32"), CtxT(1)}

Keys == {PrimT("String"), BaseT("crate::Symbol", 1, 1), ValueT(2, 2, TRUE), ValueT(1, 1, FALSE)}

Items == {BaseT("crate::Object", 1, 2), BaseT("crate::Function", 2, 1)}

Boxed == {RefT("Box", BaseT("crate::Object", 1, 1)), RefT("std::rc::Rc", BaseT("crate::Array", 2, 2)),
          RefT("Box", ValueT(1, 2, FALSE))}

ShortTups == {TupT(s) : s \in Seqs(Elems, MaxLen)}

LongTups == {TupT([i \in 1..k |-> IF i % 2 = 1 THEN a ELSE b]) :
                k \in (MaxLen + 1)..MaxArity, a \in Managed, b \in Elems}

BoxedTups == {TupT(s) : s \in Seqs(Boxed, 2)}

NestedTups == {TupT(<<a, b>>) : a \in BoxedTups, b \in {ListT("Vec", <<e>>) : e \in Managed}}

Tups == ShortTups \cup LongTups \cup BoxedTups \cup NestedTups

Lists == {ListT("Vec", s) : s \in Seqs(Elems, MaxLen)}
         \cup {ListT(ty, s) : ty \in SeqListTypes \ {"Vec"}, s \in Seqs(Managed, MaxLen)}
         \cup {ListT(ty, s) : ty \in SetListTypes, s \in {q \in Seqs(Managed, MaxLen) : Injective(q)}}

NestedLists == {ListT("Vec", s) : s \in Seqs(BoxedTups, NestLen)}

Entries == {EntryT(k, v) : k \in Keys, v \in Items}

DistinctKeys(s) == \A i, j \in 1..Len(s) : i # j => s[i].items[1] # s[j].items[1]

Maps == {MapT(ty, s) : ty \in MapTypes, s \in {q \in Seqs(Entries, MaxEntries) : DistinctKeys(q)}}

Refs1 == {RefT(ty, x) : ty \in RefTypes, x \in Elems \cup {u \in ShortTups : Len(u.items) <= 2}}

Refs2 == {RefT(ty, x) : ty \in RefTypes, x \in {r \in Refs1 : r.items[1] \in Elems}}

Refs == Refs1 \cup Refs2

---------------------------------------------------------------------------
(* State machine: one mark pass after another, one trace call at a time *)

TypeOK ==
    /\ tracer \in Tracers
    /\ op \in {"from_ffi", "idle", "mark", "mark_ctx", "trace"}
    /\ aborted \in BOOLEAN
    /\ seen \subseteq CtxPtrs

Init ==
    /\ tracer \in Tracers
    /\ obj = NoObj
    /\ op = "from_ffi"
    /\ out = <<>>
    /\ aborted = FALSE
    /\ seen = {}

(* The collector starts a mark pass and builds the visitor for it. *)
FromFfi ==
    /\ ~aborted
    /\ op = "idle"
    /\ \E rt \in Runtimes, f \in MarkFuncs : tracer' = from_ffi(rt, f)
    /\ obj' = NoObj
    /\ op' = "from_ffi"
    /\ out' = <<>>
    /\ seen' = {}
    /\ UNCHANGED aborted

(* A synchronous call made while no other trace call is running. *)
Ready == ~aborted /\ op \in {"from_ffi", "idle"}

Call(name, self, r) ==
    /\ obj' = self
    /\ op' = name
    /\ out' = r.out
    /\ aborted' = r.panic
    /\ UNCHANGED <<tracer, seen>>

(* The call returns to the collector, which has recorded the reported contexts. *)
Return ==
    /\ ~aborted
    /\ op \in {"mark", "mark_ctx", "trace"}
    /\ obj' = NoObj
    /\ op' = "idle"
    /\ out' = <<>>
    /\ seen' = seen \cup {out[i].ptr : i \in {j \in 1..Len(out) : out[j].op = "mark_func"}}
    /\ UNCHANGED <<tracer, aborted>>

Mark == Ready /\ \E v \in Values : Call("mark", v, mark(tracer, v))

MarkCtx == Ready /\ \E c \in Ctxs : Call("mark_ctx", c, mark_ctx(tracer, c))

TraceValue == Ready /\ \E v \in Values : Call("trace", v, trace(tracer, v))

TraceCtx == Ready /\ \E c \in Ctxs : Call("trace", c, trace(tracer, c))

TracePrimitive == Ready /\ \E x \in Prims : Call("trace", x, trace(tracer, x))

TraceBase == Ready /\ \E b \in Bases : Call("trace", b, trace(tracer, b))

TraceRef == Ready /\ \E r \in Refs : Call("trace", r, trace(tracer, r))

TraceTup == Ready /\ \E x \in Tups : Call("trace", x, trace(tracer, x))

TraceList == Ready /\ \E l \in Lists \cup NestedLists : Call("trace", l, trace(tracer, l))

TraceMap == Ready /\ \E m \in Maps : Call("trace", m, trace(tracer, m))

Next ==
    \/ FromFfi
    \/ Return
    \/ Mark
    \/ MarkCtx
    \/ TraceValue
    \/ TraceCtx
    \/ TracePrimitive
    \/ TraceBase
    \/ TraceRef
    \/ TraceTup
    \/ TraceList
    \/ TraceMap

Spec == Init /\ [][Next]_vars

---------------------------------------------------------------------------
(* Vocabulary of the properties *)

HasCallback == tracer.mark_func # None

Traced(kind) == op = "trace" /\ obj.kind = kind

Forwarding(x) == x.kind \in {"base", "value"}

Leaf(x) == x.kind = "primitive"

NotLeaf(x) == ~Leaf(x)

(* The report of a value: JS_MarkValue with the visitor's runtime and callback. *)
ValueReport(x) ==
    [op |-> "JS_MarkValue", rt |-> tracer.rt, func |-> tracer.mark_func, ptr |-> x.ptr]

(* The report of a context: the callback invoked with the visitor's runtime. *)
ContextReport(c) ==
    [op |-> "mark_func", rt |-> tracer.rt, func |-> tracer.mark_func, ptr |-> c]

(* What one managed element must produce: its context, then itself if ref-counted. *)
ElemReports(x) ==
    IF x.kind = "ctx" THEN <<ContextReport(x.ptr)>>
    ELSE <<ContextReport(x.ctx)>> \o (IF x.rc THEN <<ValueReport(x)>> ELSE <<>>)

RECURSIVE ReportsOf(_)
ReportsOf(xs) ==
    IF xs = <<>> THEN <<>> ELSE ElemReports(Head(xs)) \o ReportsOf(Tail(xs))

RECURSIVE Concat(_)
Concat(ss) == IF ss = <<>> THEN <<>> ELSE Head(ss) \o Concat(Tail(ss))

IsValueReport(r) == r.op = "JS_MarkValue"

HasRc(x) == x.rc

AllItems(x, P(_)) == \A i \in 1..Len(x.items) : P(x.items[i])

(* k1, v1, k2, v2, ... of a map in iteration order *)
Flat(m) ==
    [i \in 1..(2 * Len(m.items)) |->
        IF i % 2 = 1 THEN m.items[(i + 1) \div 2].items[1] ELSE m.items[i \div 2].items[2]]

ForwardingMap(x) ==
    /\ x.kind = "map"
    /\ \A i \in 1..Len(x.items) : Forwarding(x.items[i].items[1]) /\ Forwarding(x.items[i].items[2])

ForwardingList(x) == x.kind = "list" /\ AllItems(x, Forwarding)

BoxedManaged(x) == x.kind = "ref" /\ Forwarding(x.items[1])

TupleOfBoxed(x) == x.kind = "tup" /\ AllItems(x, BoxedManaged)

NestedList(x) == x.kind = "list" /\ AllItems(x, TupleOfBoxed)

(* The managed values held by a list of tuples of wrapped values, in order. *)
NestedLeaves(x) ==
    Concat([i \in 1..Len(x.items) |->
              [j \in 1..Len(x.items[i].items) |-> x.items[i].items[j].items[1]]])

RECURSIVE Unwrapped(_)
Unwrapped(x) == IF x.kind = "ref" THEN Unwrapped(x.items[1]) ELSE x

LeafThenForwarding(x) ==
    /\ x.kind = "tup"
    /\ Len(x.items) = 2
    /\ Leaf(x.items[1])
    /\ Forwarding(x.items[2])

---------------------------------------------------------------------------
(* C1 as stated: mark forwards a value report for a ref-counted value and makes *)
(* no call into the collector at all for a value without a reference count.     *)
C1_AsStated ==
    (op = "mark" /\ HasCallback) =>
        IF obj.rc THEN \E i \in 1..Len(out) : out[i] = ValueReport(obj)
        ELSE out = <<>>

(* C1 amended: mark first reports the value's context through the callback; it *)
(* then forwards exactly one value report (runtime, value pointer, callback)   *)
(* if the value is ref-counted and no value report otherwise.                  *)
C1_MarkReports ==
    (op = "mark" /\ HasCallback) =>
        /\ ~aborted
        /\ out = <<ContextReport(obj.ctx)>> \o (IF obj.rc THEN <<ValueReport(obj)>> ELSE <<>>)

C1_Witness == op = "mark" /\ HasCallback /\ ~obj.rc /\ Len(out) = 1

(* C2 as stated: a forwarding kind's trace produces exactly one report, the value *)
(* itself; a tuple (leaf, forwarding) produces exactly one report in total.       *)
C2_AsStated ==
    /\ (op = "trace" /\ HasCallback /\ Forwarding(obj)) => out = <<ValueReport(obj)>>
    /\ (op = "trace" /\ HasCallback /\ LeafThenForwarding(obj)) => out = <<ValueReport(obj.items[2])>>

(* C2 amended: a forwarding kind's trace is one mark of the value itself: one  *)
(* report of its context and, if it is ref-counted (always for the typed       *)
(* kinds), exactly one value report for it; a tuple (leaf, forwarding) emits    *)
(* exactly the reports of its second component.                                *)
C2_ForwardingReportsItself ==
    /\ (op = "trace" /\ HasCallback /\ Forwarding(obj)) =>
          /\ out = ElemReports(obj)
          /\ SelectSeq(out, IsValueReport) = (IF obj.rc THEN <<ValueReport(obj)>> ELSE <<>>)
          /\ (obj.kind = "base" => Len(out) = 2)
    /\ (op = "trace" /\ HasCallback /\ LeafThenForwarding(obj)) =>
          /\ out = ElemReports(obj.items[2])
          /\ Len(SelectSeq(out, IsValueReport)) = (IF obj.items[2].rc THEN 1 ELSE 0)

C2_Witness == Traced("base") /\ HasCallback /\ out = <<ContextReport(obj.ctx), ValueReport(obj)>>

(* C3: with an absent callback mark and mark_ctx abort and deliver no report; *)
(* with a callback present no call ever aborts.                               *)
C3_AbsentCallbackAborts ==
    /\ (op \in {"mark", "mark_ctx"} /\ ~HasCallback) => (aborted /\ out = <<>>)
    /\ HasCallback => ~aborted

C3_Witness == op = "mark" /\ ~HasCallback /\ ~obj.rc /\ aborted

(* C4: mark_ctx invokes the callback exactly once with the visitor's runtime and *)
(* the context's pointer, also for a context already reported in the pass; a     *)
(* list of contexts yields one callback per element.                             *)
C4_MarkCtxUnconditional ==
    /\ ((op = "mark_ctx" \/ Traced("ctx")) /\ HasCallback) => out = <<ContextReport(obj.ptr)>>
    /\ (Traced("list") /\ HasCallback /\ \A i \in 1..Len(obj.items) : obj.items[i].kind = "ctx") =>
          out = [i \in 1..Len(obj.items) |-> ContextReport(obj.items[i].ptr)]

C4_Witness == op = "mark_ctx" /\ HasCallback /\ obj.ptr \in seen /\ Len(out) = 1

(* C5 as stated: a map of n forwarding entries emits exactly 2n reports, the *)
(* value report of each key immediately followed by that of its value.       *)
C5_AsStated ==
    (op = "trace" /\ HasCallback /\ ForwardingMap(obj)) =>
        /\ Len(out) = 2 * Len(obj.items)
        /\ \A i \in 1..Len(obj.items) :
              /\ out[2 * i - 1] = ValueReport(obj.items[i].items[1])
              /\ out[2 * i] = ValueReport(obj.items[i].items[2])

(* C5 amended: a map of n forwarding entries emits, entry by entry, the reports  *)
(* of the key (its context, then the key if ref-counted) immediately followed by *)
(* the reports of the same entry's value (its context, then the value): 2n       *)
(* context reports and one value report per ref-counted key or value, in the     *)
(* order k1, v1, k2, v2, ...                                                     *)
C5_MapReportsPairs ==
    (op = "trace" /\ HasCallback /\ ForwardingMap(obj)) =>
        /\ out = ReportsOf(Flat(obj))
        /\ SelectSeq(out, IsValueReport) =
              [i \in 1..Len(SelectSeq(Flat(obj), HasRc)) |-> ValueReport(SelectSeq(Flat(obj), HasRc)[i])]
        /\ Len(out) = 2 * Len(obj.items) + Len(SelectSeq(Flat(obj), HasRc))

C5_Witness ==
    /\ op = "trace" /\ HasCallback /\ ForwardingMap(obj)
    /\ Len(obj.items) = 2
    /\ Len(SelectSeq(out, IsValueReport)) = 4

(* C6 as stated: a list of n forwarding elements emits exactly n reports, the *)
(* value report of each element in iteration order.                           *)
C6_AsStated ==
    (op = "trace" /\ HasCallback /\ ForwardingList(obj)) =>
        out = [i \in 1..Len(obj.items) |-> ValueReport(obj.items[i])]

(* C6 amended: a list of n forwarding elements emits, in iteration order, for  *)
(* each element one report of its context and then, if the element is          *)
(* ref-counted, one value report: n value reports when all n elements are      *)
(* ref-counted, and nothing at all for the empty list.                         *)
C6_ListReportsEach ==
    (op = "trace" /\ HasCallback /\ ForwardingList(obj)) =>
        /\ out = ReportsOf(obj.items)
        /\ SelectSeq(out, IsValueReport) =
              [i \in 1..Len(SelectSeq(obj.items, HasRc)) |-> ValueReport(SelectSeq(obj.items, HasRc)[i])]
        /\ (AllItems(obj, HasRc) => Len(SelectSeq(out, IsValueReport)) = Len(obj.items))
        /\ (obj.items = <<>> => out = <<>>)

C6_Witness ==
    /\ op = "trace" /\ HasCallback /\ ForwardingList(obj)
    /\ Len(obj.items) = 3
    /\ Len(SelectSeq(out, IsValueReport)) = 3

(* C7: a tuple's report sequence is the concatenation, left to right, of the  *)
(* report sequences of its components, each traced exactly once; it aborts    *)
(* only if a component does; the empty tuple reports nothing.                 *)
C7_TupleConcatenates ==
    Traced("tup") =>
        /\ HasCallback =>
              out = Concat([i \in 1..Len(obj.items) |-> trace(tracer, obj.items[i]).out])
        /\ aborted = (\E i \in 1..Len(obj.items) : trace(tracer, obj.items[i]).panic)
        /\ (obj.items = <<>> => out = <<>>)

C7_Witness ==
    /\ Traced("tup") /\ HasCallback
    /\ Len(obj.items) = MaxArity
    /\ obj.items[1] # obj.items[2]
    /\ Len(out) > MaxArity

(* C8: trace on Box, Rc or Arc, also nested, emits exactly the report sequence *)
(* of trace on the unwrapped value, and aborts exactly when that does.         *)
C8_WrapperTransparent ==
    Traced("ref") =>
        /\ out = trace(tracer, Unwrapped(obj)).out
        /\ aborted = trace(tracer, Unwrapped(obj)).panic

C8_Witness ==
    /\ Traced("ref") /\ HasCallback
    /\ obj.items[1].kind = "ref"
    /\ Len(out) = 2

(* C9 as stated: a list of tuples of wrapped managed values emits as many *)
(* reports as it holds managed values.                                    *)
C9_AsStated ==
    (op = "trace" /\ HasCallback /\ NestedList(obj)) =>
        out = [i \in 1..Len(NestedLeaves(obj)) |-> ValueReport(NestedLeaves(obj)[i])]

(* C9 amended: a list of tuples of wrapped managed values emits, for each     *)
(* managed value it holds, in order, once each: one report of the value's     *)
(* context and then, if the value is ref-counted, one value report; the       *)
(* number of value reports equals the number of ref-counted managed values.   *)
C9_NestingComposes ==
    (op = "trace" /\ HasCallback /\ NestedList(obj)) =>
        /\ out = ReportsOf(NestedLeaves(obj))
        /\ Len(SelectSeq(out, IsValueReport)) = Len(SelectSeq(NestedLeaves(obj), HasRc))

C9_Witness ==
    /\ op = "trace" /\ HasCallback /\ NestedList(obj)
    /\ Len(obj.items) = 2
    /\ Len(NestedLeaves(obj)) = 4
    /\ Len(SelectSeq(out, IsValueReport)) = 4

(* C10: the trace of a leaf kind reports nothing and never aborts, under any *)
(* visitor; leaf components and elements add nothing to the enclosing trace. *)
C10_LeavesReportNothing ==
    /\ Traced("primitive") => (out = <<>> /\ ~aborted)
    /\ (op = "trace" /\ obj.kind \in {"tup", "list"} /\ AllItems(obj, Leaf)) =>
          (out = <<>> /\ ~aborted)
    /\ (op = "trace" /\ obj.kind \in {"tup", "list"}) =>
          /\ out = trace(tracer, [obj EXCEPT !.items = SelectSeq(obj.items, NotLeaf)]).out
          /\ aborted = trace(tracer, [obj EXCEPT !.items = SelectSeq(obj.items, NotLeaf)]).panic

C10_Witness == Traced("primitive") /\ ~HasCallback /\ out = <<>> /\ ~aborted

====
